---- MODULE Spec2Model ----
(***************************************************************************)
(* Model of the persistence layer of src/browser.py: the history,          *)
(* bookmarks and downloads tables of the SQLite database and the handlers   *)
(* of FuturisticBrowser and DownloadItemModel that read and write them.     *)
(*                                                                         *)
(* A table is the sequence of its rows in rowid order.  The id column of    *)
(* history and bookmarks is never selected by the program and is left out;  *)
(* the id of a download row is kept, since DownloadItemModel stores it.     *)
(* CURRENT_TIMESTAMP is the value of the clock `now`, which Tick advances.  *)
(***************************************************************************)
EXTENDS Integers, Sequences, FiniteSets, TLC

\* ---------------------------------------------------------------- bounds
MaxTime == 1
MaxVisits == 3
MaxDownloads == 1
MaxTabs == 2
MaxClosed == 2

\* ---------------------------------------------------------------- inputs
\* Urls of ordinary pages.
URLs == {"http://a", "http://b"}
\* Urls a view can report: ordinary pages, the empty url of a blank view and
\* the internal pages.
InternalUrls == {"", "data:text/html,page", "chrome://about", "eirus://clear-history"}
ViewUrls == URLs \cup InternalUrls
\* Titles a view can report; "" is a page without a title.
Titles == {"t1", "t2"}
ViewTitles == Titles \cup {""}

\* SQL NULL and None in a column or field that otherwise holds a number >= 0.
NULL == -1

VARIABLES
    now,          \* the clock read by CURRENT_TIMESTAMP
    history,      \* table history: rows [url, title, visit_time, visit_count]
    bookmarks,    \* table bookmarks: rows [url, title, created_time]
    star_btn,     \* text of the bookmark star button
    downloads,    \* table downloads: rows [id, url, filename, filepath, status,
                  \* size, downloaded, start_time, end_time]
    items,        \* the engine's download items handed to handle_download, each
                  \* with the DownloadItemModel built for it: [state, signalled,
                  \* download_id]
    settings,     \* SettingsManager.settings, the mapping in memory
    settings_file,\* browser_settings.json: [kind |-> "absent"] while the file
                  \* does not exist, [kind |-> "corrupt"] when it does not
                  \* parse, else [kind |-> "json", content |-> the JSON value]
    db,           \* the DatabaseManager: [db_path, tables, raised], the file it
                  \* points at, whether the three tables exist in that
                  \* file, and whether its construction raised
    tabs,         \* tab_widget: the url that the view of each tab reports
    closed_tabs_stack, \* FuturisticBrowser.closed_tabs_stack
    window,       \* "open" while the main window is shown, else "closed"
    other_settings, \* the SettingsManager of a window opened with new_window:
                  \* [open |-> FALSE], or [open |-> TRUE, settings |-> its
                  \* mapping in memory]
    lastOp        \* the last store operation that ran, and on what

\* The tabs and windows of the shell.
shell == <<tabs, closed_tabs_stack, window, other_settings>>

vars == <<now, history, bookmarks, star_btn, downloads, items, settings,
          settings_file, db, shell, lastOp>>

\* ------------------------------------------------------------- helpers
\* str.startswith for the prefixes _on_load_finished tests.
startswith(url, prefix) ==
    CASE prefix = "data:" -> url = "data:text/html,page"
      [] prefix = "chrome://" -> url = "chrome://about"
      [] prefix = "eirus://" -> url = "eirus://clear-history"
      [] OTHER -> FALSE

\* The rows of table t (a sequence) whose url is u.
RowsFor(t, u) == {i \in DOMAIN t : t[i].url = u}

\* ------------------------------------------------------------- history
\* INSERT ... ON CONFLICT(url) DO UPDATE without the conflict clause.
add_to_history_no_conflict(h, url, title, ts) ==
    Append(h, [url |-> url, title |-> title, visit_time |-> ts, visit_count |-> 1])

\* The upsert keeping the old title on conflict.
add_to_history_stale_title(h, url, title, ts) ==
    IF RowsFor(h, url) # {}
    THEN [i \in DOMAIN h |->
            IF h[i].url = url
            THEN [h[i] EXCEPT !.visit_count = @ + 1, !.visit_time = ts]
            ELSE h[i]]
    ELSE Append(h, [url |-> url, title |-> title, visit_time |-> ts, visit_count |-> 1])

\* The upsert resetting the count on conflict.
add_to_history_reset_count(h, url, title, ts) ==
    IF RowsFor(h, url) # {}
    THEN [i \in DOMAIN h |->
            IF h[i].url = url
            THEN [h[i] EXCEPT !.visit_count = 1, !.visit_time = ts, !.title = title]
            ELSE h[i]]
    ELSE Append(h, [url |-> url, title |-> title, visit_time |-> ts, visit_count |-> 1])

\* An insert that empties the table first.
add_to_history_truncates(h, url, title, ts) ==
    <<[url |-> url, title |-> title, visit_time |-> ts, visit_count |-> 1]>>

\* FuturisticBrowser.add_to_history: INSERT INTO history ... VALUES (url, title,
\* CURRENT_TIMESTAMP, 1) ON CONFLICT(url) DO UPDATE SET visit_count =
\* visit_count + 1, visit_time = CURRENT_TIMESTAMP, title = excluded.title.
add_to_history(h, url, title, ts) ==
    IF RowsFor(h, url) # {}
    THEN [i \in DOMAIN h |->
            IF h[i].url = url
            THEN [h[i] EXCEPT !.visit_count = @ + 1, !.visit_time = ts, !.title = title]
            ELSE h[i]]
    ELSE Append(h, [url |-> url, title |-> title, visit_time |-> ts, visit_count |-> 1])

\* A clearing that spares the rows visited more than once.
delete_history_single_visits(h) == SelectSeq(h, LAMBDA r : r.visit_count > 1)

\* DELETE FROM history, without a WHERE clause: the rows that remain.
delete_history(h) == SelectSeq(h, LAMBDA r : FALSE)

\* The limit written in the query of generate_history_page.
HistoryLimit == 200

\* ORDER BY visit_time DESC: the rows, latest visit first; rows visited at the
\* same time come in table order.
RECURSIVE order_by_visit_time_desc(_)
order_by_visit_time_desc(h) ==
    IF h = <<>> THEN <<>>
    ELSE LET m == CHOOSE i \in DOMAIN h :
                      \A j \in DOMAIN h :
                          /\ h[j].visit_time <= h[i].visit_time
                          /\ h[j].visit_time = h[i].visit_time => i <= j
         IN  <<h[m]>> \o order_by_visit_time_desc(
                 SubSeq(h, 1, m - 1) \o SubSeq(h, m + 1, Len(h)))

\* ORDER BY visit_time ASC: the same rows, latest visit last.
RECURSIVE order_by_visit_time_asc(_)
order_by_visit_time_asc(h) ==
    IF h = <<>> THEN <<>>
    ELSE LET m == CHOOSE i \in DOMAIN h :
                      \A j \in DOMAIN h :
                          /\ h[i].visit_time <= h[j].visit_time
                          /\ h[j].visit_time = h[i].visit_time => i <= j
         IN  <<h[m]>> \o order_by_visit_time_asc(
                 SubSeq(h, 1, m - 1) \o SubSeq(h, m + 1, Len(h)))

\* The listing in ascending order.
list_history_ascending(h, limit) ==
    LET rows == order_by_visit_time_asc(h)
    IN  SubSeq(rows, 1, IF Len(rows) < limit THEN Len(rows) ELSE limit)

\* SELECT url, title, visit_time, visit_count FROM history ORDER BY visit_time
\* DESC LIMIT limit.
list_history(h, limit) ==
    LET rows == order_by_visit_time_desc(h)
    IN  SubSeq(rows, 1, IF Len(rows) < limit THEN Len(rows) ELSE limit)


\* ------------------------------------------------------------ bookmarks
\* FuturisticBrowser.is_bookmarked: SELECT COUNT(*) FROM bookmarks WHERE
\* url = ?; count > 0.
is_bookmarked(b, url) == Cardinality(RowsFor(b, url)) > 0

\* INSERT without OR REPLACE: a second row for the url.
add_bookmark_plain_insert(b, url, title, ts) ==
    Append(b, [url |-> url, title |-> title, created_time |-> ts])

\* FuturisticBrowser.add_bookmark: INSERT OR REPLACE INTO bookmarks (url,
\* title): the row that conflicts on the UNIQUE url is deleted and the new row
\* is inserted with a fresh rowid and created_time = CURRENT_TIMESTAMP.
add_bookmark(b, url, title, ts) ==
    Append(SelectSeq(b, LAMBDA r : r.url # url),
           [url |-> url, title |-> title, created_time |-> ts])

\* A DELETE that matches nothing.
remove_bookmark_none(b, url) == b

\* FuturisticBrowser.remove_bookmark: DELETE FROM bookmarks WHERE url = ?.
remove_bookmark(b, url) == SelectSeq(b, LAMBDA r : r.url # url)

\* ------------------------------------------------------------ downloads
\* Statuses a download row can hold; the last three are terminal.
Terminal == {"completed", "failed", "canceled"}

\* Byte counts the engine reports, -1 for a total it does not know: the
\* (received, total) pairs of a downloadProgress signal, and what totalBytes()
\* returns when the download starts.
Received == {0, 1, 2}
Totals == {-1, 1, 2}
StartTotals == {-1, 0, 2}

\* The save paths QFileDialog.getSaveFileName can return: "" when the user
\* dismisses the dialog.
SavePaths == {"", "/dl/file"}
DownloadUrl == "http://a/file"
SuggestedName == "file"

\* int(getattr(self.item, "totalBytes", lambda: 0)() or 0)
total_bytes(tb) == IF tb = 0 THEN 0 ELSE tb

\* The insert storing the received count in both columns.
setup_db_record_downloaded_total(d, url, suggested, path, total, ts) ==
    Append(d, [id |-> Len(d) + 1, url |-> url, filename |-> suggested,
               filepath |-> path, status |-> "downloading", size |-> total,
               downloaded |-> total, start_time |-> ts, end_time |-> NULL])

\* DownloadItemModel._setup_db_record: INSERT INTO downloads (url, filename,
\* filepath, status, size, downloaded, start_time) VALUES (?, ?, ?,
\* 'downloading', total, 0, CURRENT_TIMESTAMP).  Rows of downloads are never
\* deleted, so the AUTOINCREMENT id is the number of rows plus one.
setup_db_record(d, url, suggested, path, total, ts) ==
    Append(d, [id |-> Len(d) + 1, url |-> url, filename |-> suggested,
               filepath |-> path, status |-> "downloading", size |-> total,
               downloaded |-> 0, start_time |-> ts, end_time |-> NULL])

\* cur.lastrowid after the insert.
lastrowid(d) == d[Len(d)].id

\* The progress update also resetting the status.
on_progress_resets_status(d, download_id, received, total) ==
    [i \in DOMAIN d |->
        IF d[i].id = download_id
        THEN [d[i] EXCEPT !.downloaded = received, !.size = total,
                          !.status = "downloading"]
        ELSE d[i]]

\* The progress update without its WHERE clause.
on_progress_all_rows(d, download_id, received, total) ==
    [i \in DOMAIN d |-> [d[i] EXCEPT !.downloaded = received, !.size = total]]

\* DownloadItemModel._on_progress: UPDATE downloads SET downloaded = ?,
\* size = ? WHERE id = ?.
on_progress(d, download_id, received, total) ==
    [i \in DOMAIN d |->
        IF d[i].id = download_id
        THEN [d[i] EXCEPT !.downloaded = received, !.size = total]
        ELSE d[i]]

\* The finish update with the two statuses exchanged.
on_finished_swapped(d, download_id, exists, ts) ==
    [i \in DOMAIN d |->
        IF d[i].id = download_id
        THEN [d[i] EXCEPT !.status = IF exists THEN "failed" ELSE "completed",
                          !.end_time = ts]
        ELSE d[i]]

\* The finish update without its WHERE clause.
on_finished_all_rows(d, download_id, exists, ts) ==
    [i \in DOMAIN d |->
        [d[i] EXCEPT !.status = IF exists THEN "completed" ELSE "failed",
                     !.end_time = ts]]

\* DownloadItemModel._on_finished: status = "completed" if
\* os.path.exists(self.item.path()) else "failed"; UPDATE downloads SET
\* status = ?, end_time = CURRENT_TIMESTAMP WHERE id = ?.
on_finished(d, download_id, exists, ts) ==
    [i \in DOMAIN d |->
        IF d[i].id = download_id
        THEN [d[i] EXCEPT !.status = IF exists THEN "completed" ELSE "failed",
                          !.end_time = ts]
        ELSE d[i]]

\* ------------------------------------------------------------- settings
\* The Python values a setting can hold, each with its type.
Str(s) == [type |-> "str", str |-> s]
Bool(b) == [type |-> "bool", bool |-> b]
List(l) == [type |-> "list", list |-> l]
Dict(d) == [type |-> "dict", dict |-> d]
None == [type |-> "NoneType"]

\* SettingsManager.default_settings.
default_settings ==
    [theme_color |-> Str("#2D1B69"),
     search_engine |-> Str("https://www.google.com/search?q="),
     homepage |-> Str("https://www.google.com"),
     download_directory |-> Str("~/Downloads"),
     show_bookmarks_bar |-> Bool(TRUE),
     enable_javascript |-> Bool(TRUE),
     restore_last_session |-> Bool(TRUE),
     last_session_tabs |-> List(<<>>)]

\* json.dump: the JSON value written for a Python value.
RECURSIVE to_json(_)
to_json(v) ==
    CASE v.type = "str" -> [json |-> "string", string |-> v.str]
      [] v.type = "bool" -> IF v.bool THEN [json |-> "true"] ELSE [json |-> "false"]
      [] v.type = "NoneType" -> [json |-> "null"]
      [] v.type = "list" ->
            [json |-> "array", array |-> [i \in DOMAIN v.list |-> to_json(v.list[i])]]
      [] v.type = "dict" ->
            [json |-> "object", object |-> [k \in DOMAIN v.dict |-> to_json(v.dict[k])]]

\* json.load: the Python value read for a JSON value.
RECURSIVE from_json(_)
from_json(j) ==
    CASE j.json = "string" -> Str(j.string)
      [] j.json = "true" -> Bool(TRUE)
      [] j.json = "false" -> Bool(FALSE)
      [] j.json = "null" -> None
      [] j.json = "array" -> List([i \in DOMAIN j.array |-> from_json(j.array[i])])
      [] j.json = "object" -> Dict([k \in DOMAIN j.object |-> from_json(j.object[k])])

\* How the rewrite of the settings file can end: written; open() raised and
\* the file is as before; open() truncated the file and json.dump raised.
WriteOutcomes == {"ok", "open_failed", "dump_failed"}

\* SettingsManager.save_settings with the given outcome: the new content of
\* the file.
save_settings(mapping, file, outcome) ==
    CASE outcome = "ok" -> [kind |-> "json", content |-> to_json(Dict(mapping))]
      [] outcome = "open_failed" -> file
      [] OTHER -> [kind |-> "corrupt"]

\* self.settings[key] = value
dict_set(mapping, key, value) ==
    [k \in DOMAIN mapping \cup {key} |-> IF k = key THEN value ELSE mapping[k]]

\* {**a, **b}
dict_merge(a, b) ==
    [k \in DOMAIN a \cup DOMAIN b |-> IF k \in DOMAIN b THEN b[k] ELSE a[k]]

\* The try block of SettingsManager.load_settings: the mapping it assigns, or
\* that it raised (json.load on a file that does not parse, ** on a loaded
\* value that is not a mapping).
load_settings_try(file) ==
    CASE file.kind = "absent" -> [raised |-> FALSE, settings |-> default_settings]
      [] file.kind = "corrupt" -> [raised |-> TRUE]
      [] file.content.json # "object" -> [raised |-> TRUE]
      [] OTHER ->
            [raised |-> FALSE,
             settings |-> dict_merge(default_settings, from_json(file.content).dict)]

\* load_settings whose merge lets the defaults win: {**loaded, **defaults}.
load_settings_defaults_win(file) ==
    LET body == load_settings_try(file)
    IN  IF body.raised
        THEN [raised |-> FALSE, settings |-> default_settings]
        ELSE [raised |-> FALSE,
              settings |-> dict_merge(body.settings, default_settings)]

\* load_settings without its except clause.
load_settings_no_except(file) ==
    LET body == load_settings_try(file)
    IN  IF body.raised
        THEN [raised |-> TRUE, settings |-> default_settings]
        ELSE body

\* SettingsManager.load_settings: the try block, and except Exception:
\* self.settings = self.default_settings.copy().
load_settings(file) ==
    LET body == load_settings_try(file)
    IN  IF body.raised
        THEN [raised |-> FALSE, settings |-> default_settings]
        ELSE body

\* get that looks in the defaults first.
get_default_first(mapping, key) ==
    IF key \in DOMAIN default_settings THEN default_settings[key]
    ELSE IF key \in DOMAIN mapping THEN mapping[key]
    ELSE None

\* SettingsManager.get: self.settings.get(key, self.default_settings.get(key)).
get(mapping, key) ==
    IF key \in DOMAIN mapping THEN mapping[key]
    ELSE IF key \in DOMAIN default_settings THEN default_settings[key]
    ELSE None

\* ----------------------------------------------------------------- tabs
\* The url of an internal page: "data:text/html," and the page.
PageUrl == "data:text/html,page"

\* The urls that the engine reports for the view of a tab: ordinary pages,
\* and the empty url of a view that has committed no page yet.
TabUrls == {"http://a", ""}

\* The truth value Python gives a setting in `if` and in `x if c else y`.
truthy(v) ==
    CASE v.type = "bool" -> v.bool
      [] v.type = "str" -> v.str # ""
      [] v.type = "list" -> v.list # <<>>
      [] v.type = "dict" -> DOMAIN v.dict # {}
      [] OTHER -> FALSE

\* The url that the view of a new tab reports after view.load(QUrl(url)):
\* QUrl of a value that is no str raises, which add_new_tab catches, and the
\* view shows the welcome page, without a url.
view_url(v) == IF v.type = "str" THEN v.str ELSE ""

\* add_new_tab that loads an empty url as it is.
add_new_tab_no_homepage(t, url, mapping) == Append(t, view_url(url))

\* FuturisticBrowser.add_new_tab(url): if not url: url =
\* self.settings.get("homepage"); a view is added as the last tab and loads
\* url.
add_new_tab(t, url, mapping) ==
    Append(t, view_url(IF truthy(url) THEN url ELSE get(mapping, "homepage")))

\* for url in initial_tabs: self.add_new_tab(url)
RECURSIVE add_new_tabs(_, _, _)
add_new_tabs(t, urls, mapping) ==
    IF urls = <<>> THEN t
    ELSE add_new_tabs(add_new_tab(t, Head(urls), mapping), Tail(urls), mapping)

\* The initial tabs of FuturisticBrowser.__init__: initial_tabs =
\* get("last_session_tabs") if get("restore_last_session") else []; one tab
\* per url of initial_tabs, or one homepage tab when initial_tabs is empty.
startup_tabs(mapping) ==
    LET initial_tabs == IF truthy(get(mapping, "restore_last_session"))
                        THEN get(mapping, "last_session_tabs")
                        ELSE List(<<>>)
    IN  IF truthy(initial_tabs) /\ initial_tabs.type = "list"
        THEN add_new_tabs(<<>>, initial_tabs.list, mapping)
        ELSE add_new_tab(<<>>, get(mapping, "homepage"), mapping)

\* The keys the shell sets (the save-settings action, closeEvent) and the
\* values it sets them to.
SetKeys == {"homepage", "show_bookmarks_bar", "last_session_tabs"}
SetValues(key) ==
    CASE key = "homepage" -> {Str("https://example.com")}
      [] key = "show_bookmarks_bar" -> {Bool(FALSE), Bool(TRUE)}
      [] key = "last_session_tabs" -> {List(<<Str("http://a")>>)}

\* A key outside the default key set.
UnknownKey == "zoom"

\* The JSON documents found in browser_settings.json at startup: objects with
\* none, some or more than the known keys, an object with a null, and a
\* document that is not an object.
JsonString(s) == [json |-> "string", string |-> s]
JsonObject(o) == [json |-> "object", object |-> o]
SettingsDocuments ==
    {JsonObject(<<>>),
     JsonObject([homepage |-> JsonString("https://start.example")]),
     JsonObject([homepage |-> JsonString("https://start.example"),
                 show_bookmarks_bar |-> [json |-> "false"],
                 zoom |-> JsonString("150%")]),
     JsonObject([homepage |-> [json |-> "null"]]),
     [json |-> "array", array |-> <<>>]}

\* What browser_settings.json can be at startup.
SettingsFiles ==
    {[kind |-> "absent"], [kind |-> "corrupt"]}
        \cup {[kind |-> "json", content |-> c] : c \in SettingsDocuments}

\* The settings files a session starts over: none, and one in which the user
\* has switched restore_last_session off.
SessionFiles ==
    {[kind |-> "absent"],
     [kind |-> "json",
      content |-> JsonObject([restore_last_session |-> [json |-> "false"]])]}

\* ------------------------------------------------------------- database
\* The database files: browser_data.db in the per-user data directory and
\* eirusalpha_data.db in the temporary directory.
DataDb == "browser_data.db"
TempDb == "eirusalpha_data.db"

\* How the construction of the DatabaseManager can go: the tables are created;
\* os.makedirs of the data directory raises; sqlite3.connect or a CREATE TABLE
\* at the per-user path raises.
InitOutcomes == {"ok", "makedirs_failed", "init_failed"}

\* DatabaseManager.init_database: CREATE TABLE IF NOT EXISTS history, bookmarks
\* and downloads at db_path; except Exception: db_path becomes the file in the
\* temporary directory, which is only connected to (with sqlite3.connect(...):
\* pass), so no table is created in it.
init_database(outcome) ==
    IF outcome = "ok"
    THEN [db_path |-> DataDb, tables |-> TRUE, raised |-> FALSE]
    ELSE [db_path |-> TempDb, tables |-> FALSE, raised |-> FALSE]

\* DatabaseManager.__init__: os.makedirs outside any try, then init_database.
DatabaseManager_init(outcome) ==
    IF outcome = "makedirs_failed"
    THEN [db_path |-> "", tables |-> FALSE, raised |-> TRUE]
    ELSE init_database(outcome)

\* ----------------------------------------------------------------- Init
NoOp == [op |-> "none"]

Init ==
    /\ now = 0
    /\ history = <<>>
    /\ bookmarks = <<>>
    /\ star_btn = "off"
    /\ downloads = <<>>
    /\ items = <<>>
    /\ settings = default_settings
    /\ settings_file = [kind |-> "absent"]
    /\ db = DatabaseManager_init("ok")
    /\ tabs = startup_tabs(settings)
    /\ closed_tabs_stack = <<>>
    /\ window = "open"
    /\ other_settings = [open |-> FALSE]
    /\ lastOp = NoOp

\* A row of downloads written by an earlier run of the program that ended while
\* the download was in progress.
PriorDownload ==
    [id |-> 1, url |-> DownloadUrl, filename |-> SuggestedName,
     filepath |-> "/dl/file", status |-> "downloading", size |-> 2,
     downloaded |-> 1, start_time |-> 0, end_time |-> NULL]

\* The state after construction over a database an earlier run has written.
InitRestart ==
    /\ now = 0
    /\ history = <<>>
    /\ bookmarks = <<>>
    /\ star_btn = "off"
    /\ downloads = <<PriorDownload>>
    /\ items = <<>>
    /\ settings = default_settings
    /\ settings_file = [kind |-> "absent"]
    /\ db = DatabaseManager_init("ok")
    /\ tabs = startup_tabs(settings)
    /\ closed_tabs_stack = <<>>
    /\ window = "open"
    /\ other_settings = [open |-> FALSE]
    /\ lastOp = NoOp

\* The state after construction over each settings file.
InitSettings ==
    /\ now = 0
    /\ history = <<>>
    /\ bookmarks = <<>>
    /\ star_btn = "off"
    /\ downloads = <<>>
    /\ items = <<>>
    /\ settings_file \in SettingsFiles
    /\ settings = load_settings(settings_file).settings
    /\ db = DatabaseManager_init("ok")
    /\ tabs = startup_tabs(settings)
    /\ closed_tabs_stack = <<>>
    /\ window = "open"
    /\ other_settings = [open |-> FALSE]
    /\ lastOp = [op |-> "load_settings", file |-> settings_file,
                 raised |-> load_settings(settings_file).raised]

\* The state after construction over each session file.
InitSession ==
    /\ now = 0
    /\ history = <<>>
    /\ bookmarks = <<>>
    /\ star_btn = "off"
    /\ downloads = <<>>
    /\ items = <<>>
    /\ settings_file \in SessionFiles
    /\ settings = load_settings(settings_file).settings
    /\ db = DatabaseManager_init("ok")
    /\ tabs = startup_tabs(settings)
    /\ closed_tabs_stack = <<>>
    /\ window = "open"
    /\ other_settings = [open |-> FALSE]
    /\ lastOp = NoOp

\* -------------------------------------------------------------- actions
\* Time passes between two events.
Tick ==
    /\ now < MaxTime
    /\ now' = now + 1
    /\ UNCHANGED <<shell, db, history, bookmarks, star_btn, downloads, items, settings,
                 settings_file, lastOp>>

\* A load handler that records every url that is not empty.
_on_load_finished_any_url(url, vtitle, ok) ==
    LET title == IF vtitle # "" THEN vtitle ELSE url
        record == ok /\ url # ""
    IN  /\ db.tables
        /\ record => \A i \in RowsFor(history, url) : history[i].visit_count < MaxVisits
        /\ IF record
           THEN /\ history' = add_to_history(history, url, title, now)
                /\ lastOp' = [op |-> "add_to_history", url |-> url, title |-> title,
                              n |-> 0, prev |-> ""]
           ELSE /\ history' = history
                /\ lastOp' = [op |-> "load_skipped", url |-> url]
        /\ UNCHANGED <<shell, db, now, bookmarks, star_btn, downloads, items, settings, settings_file>>

\* FuturisticBrowser._on_load_finished(view, ok) for a view showing url with
\* title vtitle.  lastOp.n counts the visits of url in a row since a state
\* without a row for it (0 when the run of visits did not start there), and
\* lastOp.prev is the title url had before this visit ("" without a row).
_on_load_finished(url, vtitle, ok) ==
    LET title == IF vtitle # "" THEN vtitle ELSE url
        record == /\ ok
                  /\ url # ""
                  /\ ~startswith(url, "data:")
                  /\ ~startswith(url, "chrome://")
                  /\ ~startswith(url, "eirus://")
        n == IF RowsFor(history, url) = {} THEN 1
             ELSE IF lastOp.op = "add_to_history" /\ lastOp.url = url /\ lastOp.n = 1
                  THEN 2 ELSE 0
        prev == IF RowsFor(history, url) = {} THEN ""
                ELSE history[CHOOSE i \in RowsFor(history, url) : TRUE].title
    IN  /\ db.tables
        /\ record => \A i \in RowsFor(history, url) : history[i].visit_count < MaxVisits
        /\ IF record
           THEN /\ history' = add_to_history(history, url, title, now)
                /\ lastOp' = [op |-> "add_to_history", url |-> url, title |-> title,
                              n |-> n, prev |-> prev]
           ELSE /\ history' = history
                /\ lastOp' = [op |-> "load_skipped", url |-> url]
        /\ UNCHANGED <<shell, db, now, bookmarks, star_btn, downloads, items, settings, settings_file>>

OnLoadFinished ==
    \E url \in ViewUrls, vtitle \in ViewTitles, ok \in BOOLEAN :
        _on_load_finished(url, vtitle, ok)

\* FuturisticBrowser._clear_history: DELETE FROM history.
_clear_history ==
    /\ db.tables
    /\ history' = delete_history(history)
    /\ lastOp' = [op |-> "clear_history", n |-> Len(history)]
    /\ UNCHANGED <<shell, db, now, bookmarks, star_btn, downloads, items, settings, settings_file>>

\* What lastOp records of a bookmark operation: n, the number of rows before
\* it; was, whether url was bookmarked before it; old, the title url was
\* bookmarked with; after_add, whether the operation before it was an
\* add_bookmark of the same url.
BookmarkOp(op, url, title) ==
    [op |-> op, url |-> url, title |-> title, n |-> Len(bookmarks),
     was |-> is_bookmarked(bookmarks, url),
     old |-> IF RowsFor(bookmarks, url) = {} THEN ""
             ELSE bookmarks[CHOOSE i \in RowsFor(bookmarks, url) : TRUE].title,
     after_add |-> lastOp.op = "add_bookmark" /\ lastOp.url = url]

\* add_bookmark(url, title) called on the store.
AddBookmark ==
    \E url \in URLs, title \in Titles :
        /\ db.tables
        /\ bookmarks' = add_bookmark(bookmarks, url, title, now)
        /\ lastOp' = BookmarkOp("add_bookmark", url, title)
        /\ UNCHANGED <<shell, db, now, history, star_btn, downloads, items, settings, settings_file>>

\* remove_bookmark(url) called on the store.
RemoveBookmark ==
    \E url \in URLs :
        /\ db.tables
        /\ bookmarks' = remove_bookmark(bookmarks, url)
        /\ lastOp' = BookmarkOp("remove_bookmark", url, "")
        /\ UNCHANGED <<shell, db, now, history, star_btn, downloads, items, settings, settings_file>>

\* FuturisticBrowser.toggle_bookmark for a current view showing url with title
\* vtitle.
toggle_bookmark(url, vtitle) ==
    LET title == IF vtitle # "" THEN vtitle ELSE url
    IN  /\ db.tables
        /\ IF is_bookmarked(bookmarks, url)
           THEN /\ bookmarks' = remove_bookmark(bookmarks, url)
                /\ star_btn' = "off"
                /\ lastOp' = BookmarkOp("remove_bookmark", url, "")
           ELSE /\ bookmarks' = add_bookmark(bookmarks, url, title, now)
                /\ star_btn' = "on"
                /\ lastOp' = BookmarkOp("add_bookmark", url, title)
        /\ UNCHANGED <<shell, db, now, history, downloads, items, settings, settings_file>>

ToggleBookmark ==
    \E url \in URLs, vtitle \in ViewTitles : toggle_bookmark(url, vtitle)

\* CustomPage._handle_internal_action, path delete-bookmark with parameter
\* url = burl ("" when the parameter is missing).
delete_bookmark_action(burl) ==
    /\ db.tables
    /\ IF burl # ""
       THEN /\ bookmarks' = remove_bookmark(bookmarks, burl)
            /\ lastOp' = BookmarkOp("remove_bookmark", burl, "")
       ELSE /\ bookmarks' = bookmarks
            /\ lastOp' = [op |-> "action_skipped"]
    /\ UNCHANGED <<shell, db, now, history, star_btn, downloads, items, settings, settings_file>>

DeleteBookmarkAction ==
    \E burl \in URLs \cup {""} : delete_bookmark_action(burl)

\* FuturisticBrowser.handle_download for an item whose totalBytes() is tb, the
\* save dialog returning filename: a dismissed dialog leaves the item alone,
\* else the item is accepted and a DownloadItemModel is built for it.
handle_download(filename, tb) ==
    /\ db.tables
    /\ Len(items) < MaxDownloads
    /\ IF filename # ""
       THEN /\ downloads' = setup_db_record(downloads, DownloadUrl, SuggestedName,
                                            filename, total_bytes(tb), now)
            /\ items' = Append(items, [state |-> "inprogress", signalled |-> FALSE,
                                       download_id |-> lastrowid(downloads')])
            /\ lastOp' = [op |-> "begin_download", k |-> Len(items) + 1, tb |-> tb]
       ELSE /\ UNCHANGED <<downloads, items>>
            /\ lastOp' = [op |-> "download_declined"]
    /\ UNCHANGED <<shell, db, now, history, bookmarks, star_btn, settings, settings_file>>

HandleDownload ==
    \E filename \in SavePaths, tb \in StartTotals : handle_download(filename, tb)

\* The engine item k emits downloadProgress(received, total):
\* DownloadItemModel._on_progress.
_on_progress(k, received, total) ==
    /\ db.tables
    /\ downloads' = on_progress(downloads, items[k].download_id, received, total)
    /\ lastOp' = [op |-> "on_progress", k |-> k]
    /\ UNCHANGED <<shell, db, now, history, bookmarks, star_btn, items, settings, settings_file>>

OnProgress ==
    \E k \in DOMAIN items, received \in Received, total \in Totals :
        _on_progress(k, received, total)

\* The cancel button of the DownloadWidget of item k: clicked is connected to
\* the engine item's cancel, which ends a download that is in progress.
cancel_clicked(k) ==
    /\ items[k].state = "inprogress"
    /\ items' = [items EXCEPT ![k].state = "cancelled"]
    /\ lastOp' = [op |-> "cancel", k |-> k]
    /\ UNCHANGED <<shell, db, now, history, bookmarks, star_btn, downloads, settings, settings_file>>

CancelClicked == \E k \in DOMAIN items : cancel_clicked(k)

\* The engine ends the transfer of item k: completed or interrupted.
engine_ends(k, state) ==
    /\ items[k].state = "inprogress"
    /\ items' = [items EXCEPT ![k].state = state]
    /\ lastOp' = [op |-> "engine_ends", k |-> k]
    /\ UNCHANGED <<shell, db, now, history, bookmarks, star_btn, downloads, settings, settings_file>>

EngineEnds ==
    \E k \in DOMAIN items, state \in {"completed", "interrupted"} : engine_ends(k, state)

\* The engine item k, in a final state, emits finished:
\* DownloadItemModel._on_finished, with exists = os.path.exists(item.path()).
_on_finished(k, exists) ==
    /\ db.tables
    /\ items[k].state # "inprogress"
    /\ ~items[k].signalled
    /\ downloads' = on_finished(downloads, items[k].download_id, exists, now)
    /\ items' = [items EXCEPT ![k].signalled = TRUE]
    /\ lastOp' = [op |-> "on_finished", k |-> k, exists |-> exists]
    /\ UNCHANGED <<shell, db, now, history, bookmarks, star_btn, settings, settings_file>>

OnFinished == \E k \in DOMAIN items, exists \in BOOLEAN : _on_finished(k, exists)

\* A set that keeps the value in memory only when the rewrite succeeds.
settings_set_rollback(key, value, outcome) ==
    /\ settings' = IF outcome = "ok" THEN dict_set(settings, key, value) ELSE settings
    /\ settings_file' = save_settings(settings', settings_file, outcome)
    /\ lastOp' = [op |-> "settings_set", key |-> key, value |-> value,
                  outcome |-> outcome, before |-> settings_file,
                  raised |-> FALSE]
    /\ UNCHANGED <<shell, db, now, history, bookmarks, star_btn, downloads, items>>

\* SettingsManager.set(key, value), the rewrite of the file ending in outcome;
\* save_settings catches what open and json.dump raise.
settings_set(key, value, outcome) ==
    /\ settings' = dict_set(settings, key, value)
    /\ settings_file' = save_settings(settings', settings_file, outcome)
    /\ lastOp' = [op |-> "settings_set", key |-> key, value |-> value,
                  outcome |-> outcome, before |-> settings_file,
                  raised |-> FALSE]
    /\ UNCHANGED <<shell, db, now, history, bookmarks, star_btn, downloads, items>>

SettingsSet ==
    \E key \in SetKeys, outcome \in WriteOutcomes :
        \E value \in SetValues(key) : settings_set(key, value, outcome)

\* The query parameters of an eirus://save-settings url (parse_qs leaves out
\* a parameter without a value).
SaveSettingsParams ==
    {<<>>,
     [homepage |-> "https://example.com", show_bookmarks_bar |-> "false",
      enable_javascript |-> "True"]}

\* params.get(key, [default])[0]
params_get(params, key, default) ==
    IF key \in DOMAIN params THEN params[key] ELSE default

\* str.lower on the values of a checkbox parameter.
lower(str) ==
    CASE str = "True" -> "true"
      [] str = "False" -> "false"
      [] OTHER -> str

\* The settings.set calls of the save-settings action, in order.
save_settings_pairs(params) ==
    <<<<"theme_color", Str(params_get(params, "theme_color", "#2D1B69"))>>,
      <<"search_engine",
        Str(params_get(params, "search_engine", "https://www.google.com/search?q="))>>,
      <<"homepage", Str(params_get(params, "homepage", "https://www.google.com"))>>,
      <<"download_directory",
        Str(params_get(params, "download_directory", "~/Downloads"))>>,
      <<"enable_javascript",
        Bool(lower(params_get(params, "enable_javascript", "true")) = "true")>>,
      <<"show_bookmarks_bar",
        Bool(lower(params_get(params, "show_bookmarks_bar", "true")) = "true")>>>>

\* How the six rewrites of one save-settings action can end.
SaveSettingsOutcomes ==
    {[i \in 1..6 |-> "ok"],
     [i \in 1..6 |-> "open_failed"],
     [i \in 1..6 |-> IF i = 6 THEN "dump_failed" ELSE "ok"],
     [i \in 1..6 |-> IF i = 6 THEN "open_failed" ELSE "ok"]}

\* The mapping and the file after settings.set of each pair in turn, the
\* rewrites ending as outcomes says.
RECURSIVE set_all(_, _, _, _)
set_all(mapping, file, pairs, outcomes) ==
    IF pairs = <<>> THEN [settings |-> mapping, file |-> file]
    ELSE LET m == dict_set(mapping, Head(pairs)[1], Head(pairs)[2])
         IN  set_all(m, save_settings(m, file, Head(outcomes)), Tail(pairs),
                     Tail(outcomes))

\* CustomPage._handle_internal_action, path save-settings: six settings.set
\* calls inside a try, then the theme, the bookmarks bar and the engine
\* settings are applied.
save_settings_action(params, outcomes) ==
    LET after == set_all(settings, settings_file, save_settings_pairs(params), outcomes)
    IN  /\ settings' = after.settings
        /\ settings_file' = after.file
        /\ lastOp' = [op |-> "save_settings_action", raised |-> FALSE]
        /\ UNCHANGED <<shell, db, now, history, bookmarks, star_btn, downloads, items>>

SaveSettingsAction ==
    \E params \in SaveSettingsParams, outcomes \in SaveSettingsOutcomes :
        save_settings_action(params, outcomes)

\* A new SettingsManager over the same file (a restart, a new window): its
\* __init__ calls load_settings.
SettingsManager_init ==
    /\ settings' = load_settings(settings_file).settings
    /\ lastOp' = [op |-> "load_settings", file |-> settings_file,
                  raised |-> load_settings(settings_file).raised]
    /\ UNCHANGED <<shell, db, now, history, bookmarks, star_btn, downloads, items, settings_file>>

\* FuturisticBrowser.show_history: a tab with the page that
\* generate_history_page builds from its listing.
show_history ==
    /\ db.tables
    /\ Len(tabs) < MaxTabs
    /\ tabs' = add_new_tab(tabs, Str(PageUrl), settings)
    /\ lastOp' = [op |-> "show_history", rows |-> list_history(history, HistoryLimit)]
    /\ UNCHANGED <<closed_tabs_stack, window, other_settings, db, now, history,
                   bookmarks, star_btn, downloads, items, settings, settings_file>>

\* FuturisticBrowser.show_bookmarks and show_downloads: a tab with the page
\* built from the rows of the table.
ListedPages == {"bookmarks", "downloads"}
show_page(page) ==
    /\ db.tables
    /\ Len(tabs) < MaxTabs
    /\ tabs' = add_new_tab(tabs, Str(PageUrl), settings)
    /\ lastOp' = [op |-> "show_page", page |-> page,
                  n |-> IF page = "bookmarks" THEN Len(bookmarks) ELSE Len(downloads)]
    /\ UNCHANGED <<closed_tabs_stack, window, other_settings, db, now, history,
                   bookmarks, star_btn, downloads, items, settings, settings_file>>

ShowPage == \E page \in ListedPages : show_page(page)

\* FuturisticBrowser.show_settings: a tab with the page that
\* generate_settings_page builds from the settings; no table is read.
show_settings ==
    /\ Len(tabs) < MaxTabs
    /\ tabs' = add_new_tab(tabs, Str(PageUrl), settings)
    /\ lastOp' = [op |-> "show_settings"]
    /\ UNCHANGED <<closed_tabs_stack, window, other_settings, db, now, history,
                   bookmarks, star_btn, downloads, items, settings, settings_file>>

\* FuturisticBrowser._update_star_state for a view showing url.
_update_star_state(url) ==
    /\ db.tables
    /\ star_btn' = IF is_bookmarked(bookmarks, url) THEN "on" ELSE "off"
    /\ lastOp' = [op |-> "update_star_state", url |-> url]
    /\ UNCHANGED <<shell, db, now, history, bookmarks, downloads, items, settings,
                   settings_file>>

\* ------------------------------------------------------ tabs and windows
\* The new-tab button and shortcut: add_new_tab() without a url.
new_tab ==
    /\ window = "open"
    /\ Len(tabs) < MaxTabs
    /\ tabs' = add_new_tab(tabs, None, settings)
    /\ lastOp' = [op |-> "new_tab"]
    /\ UNCHANGED <<closed_tabs_stack, window, other_settings, db, now, history,
                   bookmarks, star_btn, downloads, items, settings, settings_file>>

\* The engine changes the url of the view of tab i (1-based): a navigation.
url_changed(i, url) ==
    /\ window = "open"
    /\ i \in DOMAIN tabs
    /\ tabs[i] # url
    /\ tabs' = [tabs EXCEPT ![i] = url]
    /\ lastOp' = [op |-> "url_changed", i |-> i]
    /\ UNCHANGED <<closed_tabs_stack, window, other_settings, db, now, history,
                   bookmarks, star_btn, downloads, items, settings, settings_file>>

UrlChanged == \E i \in DOMAIN tabs, url \in TabUrls : url_changed(i, url)

\* The list closeEvent builds: w.url().toString() of each tab, in tab order.
session_tabs(t) == List([i \in DOMAIN t |-> Str(t[i])])

\* A closeEvent that stores the tabs last tab first.
close_event_reversed(t, mapping, file, outcome) ==
    LET reversed == [i \in DOMAIN t |-> t[Len(t) + 1 - i]]
        m == dict_set(mapping, "last_session_tabs", session_tabs(reversed))
    IN  [settings |-> m, file |-> save_settings(m, file, outcome)]

\* FuturisticBrowser.closeEvent on tabs t: settings.set("last_session_tabs",
\* tabs), the rewrite of the file ending in outcome; the mapping and the file
\* after it.
close_event(t, mapping, file, outcome) ==
    LET m == dict_set(mapping, "last_session_tabs", session_tabs(t))
    IN  [settings |-> m, file |-> save_settings(m, file, outcome)]

\* The user closes the main window: closeEvent.
closeEvent(outcome) ==
    /\ window = "open"
    /\ settings' = close_event(tabs, settings, settings_file, outcome).settings
    /\ settings_file' = close_event(tabs, settings, settings_file, outcome).file
    /\ window' = "closed"
    /\ lastOp' = [op |-> "closeEvent", tabs |-> tabs, outcome |-> outcome,
                  by |-> "user"]
    /\ UNCHANGED <<tabs, closed_tabs_stack, other_settings, db, now, history,
                   bookmarks, star_btn, downloads, items>>

CloseEvent == \E outcome \in WriteOutcomes : closeEvent(outcome)

\* tab_widget.removeTab(index) for a 0-based index: nothing out of range.
removeTab(t, index) ==
    IF index >= 0 /\ index < Len(t)
    THEN SubSeq(t, 1, index) \o SubSeq(t, index + 2, Len(t))
    ELSE t

\* The closed_tabs_stack after close_tab(index): the url of the widget at
\* index is appended; tab_widget.widget(index) out of range is None, which
\* has no url.
push_closed(stack, t, index) ==
    IF index >= 0 /\ index < Len(t) THEN Append(stack, t[index + 1]) ELSE stack

\* A close_tab that leaves the window open without a tab.
close_tab_keeps_window(index, outcome) ==
    /\ window = "open"
    /\ Len(closed_tabs_stack) < MaxClosed
    /\ closed_tabs_stack' =
           IF index >= 0 /\ Len(tabs) > 0
           THEN push_closed(closed_tabs_stack, tabs, index) ELSE closed_tabs_stack
    /\ tabs' = IF index >= 0 /\ Len(tabs) > 0 THEN removeTab(tabs, index) ELSE tabs
    /\ UNCHANGED <<settings, settings_file, window>>
    /\ lastOp' = [op |-> "close_tab", index |-> index, before |-> tabs,
                  stack |-> closed_tabs_stack, outcome |-> outcome]
    /\ UNCHANGED <<other_settings, db, now, history, bookmarks, star_btn, downloads,
                   items>>

\* FuturisticBrowser.close_tab(index), index 0-based: the url of the tab is
\* pushed and the tab removed; when no tab is left, self.close() runs
\* closeEvent, its rewrite of the settings file ending in outcome.
close_tab(index, outcome) ==
    /\ window = "open"
    /\ Len(closed_tabs_stack) < MaxClosed
    /\ closed_tabs_stack' =
           IF index >= 0 /\ Len(tabs) > 0
           THEN push_closed(closed_tabs_stack, tabs, index) ELSE closed_tabs_stack
    /\ tabs' = IF index >= 0 /\ Len(tabs) > 0 THEN removeTab(tabs, index) ELSE tabs
    /\ IF Len(tabs') = 0
       THEN /\ settings' = close_event(tabs', settings, settings_file, outcome).settings
            /\ settings_file' = close_event(tabs', settings, settings_file, outcome).file
            /\ window' = "closed"
       ELSE UNCHANGED <<settings, settings_file, window>>
    /\ lastOp' = [op |-> "close_tab", index |-> index, before |-> tabs,
                  stack |-> closed_tabs_stack, outcome |-> outcome]
    /\ UNCHANGED <<other_settings, db, now, history, bookmarks, star_btn, downloads,
                   items>>

\* The indexes close_tab is called with: the close button of a tab, and
\* indexes that name no tab.
CloseTab ==
    \E index \in -1..Len(tabs), outcome \in WriteOutcomes :
        /\ (Len(tabs) > 1 \/ index < 0 \/ index >= Len(tabs)) => outcome = "ok"
        /\ close_tab(index, outcome)

\* FuturisticBrowser.reopen_closed_tab.
reopen_closed_tab ==
    /\ window = "open"
    /\ closed_tabs_stack # <<>> => Len(tabs) < MaxTabs
    /\ IF closed_tabs_stack # <<>>
       THEN /\ closed_tabs_stack' =
                   SubSeq(closed_tabs_stack, 1, Len(closed_tabs_stack) - 1)
            /\ tabs' = add_new_tab(tabs,
                                   Str(closed_tabs_stack[Len(closed_tabs_stack)]),
                                   settings)
       ELSE UNCHANGED <<tabs, closed_tabs_stack>>
    /\ lastOp' = [op |-> "reopen_closed_tab", before |-> tabs,
                  stack |-> closed_tabs_stack]
    /\ UNCHANGED <<window, other_settings, db, now, history, bookmarks, star_btn,
                   downloads, items, settings, settings_file>>

\* A table recreated from scratch: DROP TABLE, CREATE TABLE.
create_table_anew(exists, rows) == <<>>

\* CREATE TABLE IF NOT EXISTS on a table with the given rows: nothing when the
\* table exists.
create_table_if_not_exists(exists, rows) == IF exists THEN rows ELSE <<>>

\* The program is started again after its window was closed:
\* FuturisticBrowser.__init__ over the database file and the settings file
\* that the earlier run has left, the construction of the DatabaseManager
\* going as outcome says.  When os.makedirs raises, no window is built.
Startup(outcome) ==
    /\ window = "closed"
    /\ Len(downloads) <= MaxDownloads
    /\ db' = DatabaseManager_init(outcome)
    /\ IF outcome = "ok"
       THEN /\ history' = create_table_if_not_exists(TRUE, history)
            /\ bookmarks' = create_table_if_not_exists(TRUE, bookmarks)
            /\ downloads' = create_table_if_not_exists(TRUE, downloads)
       ELSE UNCHANGED <<history, bookmarks, downloads>>
    /\ IF db'.raised
       THEN UNCHANGED <<settings, tabs, window>>
       ELSE /\ settings' = load_settings(settings_file).settings
            /\ tabs' = startup_tabs(settings')
            /\ window' = "open"
    /\ closed_tabs_stack' = <<>>
    /\ items' = <<>>
    /\ star_btn' = "off"
    /\ other_settings' = [open |-> FALSE]
    /\ lastOp' = [op |-> "startup", outcome |-> outcome, file |-> settings_file]
    /\ UNCHANGED <<now, settings_file>>

StartupAny == \E outcome \in InitOutcomes : Startup(outcome)

\* FuturisticBrowser.new_window: a second FuturisticBrowser in the same
\* process, with a DatabaseManager and a SettingsManager of its own.  When
\* os.makedirs raises, the exception leaves new_window.
new_window(outcome) ==
    /\ window = "open"
    /\ ~other_settings.open
    /\ IF outcome = "ok"
       THEN /\ history' = create_table_if_not_exists(TRUE, history)
            /\ bookmarks' = create_table_if_not_exists(TRUE, bookmarks)
            /\ downloads' = create_table_if_not_exists(TRUE, downloads)
       ELSE UNCHANGED <<history, bookmarks, downloads>>
    /\ other_settings' =
           IF DatabaseManager_init(outcome).raised THEN other_settings
           ELSE [open |-> TRUE, settings |-> load_settings(settings_file).settings]
    /\ lastOp' = [op |-> "new_window", outcome |-> outcome,
                  raised |-> DatabaseManager_init(outcome).raised]
    /\ UNCHANGED <<tabs, closed_tabs_stack, window, db, now, star_btn, items, settings,
                   settings_file>>

NewWindow == \E outcome \in InitOutcomes : new_window(outcome)

\* SettingsManager.set(key, value) through the second window: the mapping of
\* its own SettingsManager takes the value and is written to the file that the
\* two windows share.
settings_set_other(key, value, outcome) ==
    /\ other_settings.open
    /\ other_settings' =
           [other_settings EXCEPT !.settings = dict_set(@, key, value)]
    /\ settings_file' = save_settings(other_settings'.settings, settings_file, outcome)
    /\ lastOp' = [op |-> "settings_set_other", key |-> key, value |-> value,
                  outcome |-> outcome, before |-> settings_file,
                  raised |-> FALSE]
    /\ UNCHANGED <<tabs, closed_tabs_stack, window, db, now, history, bookmarks,
                   star_btn, downloads, items, settings>>

SettingsSetOther ==
    \E key \in SetKeys, outcome \in WriteOutcomes :
        \E value \in SetValues(key) : settings_set_other(key, value, outcome)

\* ---------------------------------------------------- storage failures
\* A statement on the database raises: always when the tables are missing, at
\* any time for an I/O error or a locked file. What lastOp records of the
\* handler in which it happened: raised, whether the exception left the
\* handler.
StorageFailure(handler, raised) ==
    [op |-> "storage_failure", handler |-> handler, raised |-> raised]

\* toggle_bookmark when is_bookmarked, add_bookmark or remove_bookmark raises:
\* there is no try in toggle_bookmark, nor in the three methods.
toggle_bookmark_fails ==
    /\ ~db.raised
    /\ lastOp' = StorageFailure("toggle_bookmark", TRUE)
    /\ UNCHANGED <<shell, db, now, history, bookmarks, star_btn, downloads, items, settings,
                   settings_file>>

\* _update_star_state when is_bookmarked raises: except Exception:
\* self.star_btn.setText("☆").
_update_star_state_fails ==
    /\ ~db.raised
    /\ star_btn' = "off"
    /\ lastOp' = StorageFailure("_update_star_state", FALSE)
    /\ UNCHANGED <<shell, db, now, history, bookmarks, downloads, items, settings,
                   settings_file>>

\* show_history, show_bookmarks, show_downloads when the SELECT of the
\* generate_*_page method raises: there is no try in either method.
show_page_fails(page) ==
    /\ ~db.raised
    /\ lastOp' = StorageFailure(page, TRUE)
    /\ UNCHANGED <<shell, db, now, history, bookmarks, star_btn, downloads, items, settings,
                   settings_file>>

ShowPageFails ==
    \E page \in {"show_history", "show_bookmarks", "show_downloads"} :
        show_page_fails(page)

\* _on_load_finished(view, True) of an ordinary page when add_to_history
\* raises: inside the try of _on_load_finished.
_on_load_finished_fails ==
    /\ ~db.raised
    /\ lastOp' = StorageFailure("_on_load_finished", FALSE)
    /\ UNCHANGED <<shell, db, now, history, bookmarks, star_btn, downloads, items, settings,
                   settings_file>>

\* _clear_history when the DELETE raises: except Exception: QMessageBox.
_clear_history_fails ==
    /\ ~db.raised
    /\ lastOp' = StorageFailure("_clear_history", FALSE)
    /\ UNCHANGED <<shell, db, now, history, bookmarks, star_btn, downloads, items, settings,
                   settings_file>>

\* The delete-bookmark action when remove_bookmark raises: there is no try
\* around it in _handle_internal_action.
delete_bookmark_action_fails ==
    /\ ~db.raised
    /\ lastOp' = StorageFailure("delete-bookmark", TRUE)
    /\ UNCHANGED <<shell, db, now, history, bookmarks, star_btn, downloads, items, settings,
                   settings_file>>

\* handle_download with a confirmed save dialog when the INSERT of
\* _setup_db_record raises: inside its try; download_id stays None.
handle_download_fails ==
    /\ ~db.raised
    /\ Len(items) < MaxDownloads
    /\ items' = Append(items, [state |-> "inprogress", signalled |-> FALSE,
                               download_id |-> NULL])
    /\ lastOp' = StorageFailure("_setup_db_record", FALSE)
    /\ UNCHANGED <<shell, db, now, history, bookmarks, star_btn, downloads, settings,
                   settings_file>>

\* _on_progress of item k when the UPDATE raises: inside its try.
_on_progress_fails(k) ==
    /\ ~db.raised
    /\ lastOp' = StorageFailure("_on_progress", FALSE)
    /\ UNCHANGED <<shell, db, now, history, bookmarks, star_btn, downloads, items, settings,
                   settings_file>>

OnProgressFails == \E k \in DOMAIN items : _on_progress_fails(k)

\* _on_finished of item k when the UPDATE raises: inside its try.
_on_finished_fails(k) ==
    /\ ~db.raised
    /\ items[k].state # "inprogress"
    /\ ~items[k].signalled
    /\ items' = [items EXCEPT ![k].signalled = TRUE]
    /\ lastOp' = StorageFailure("_on_finished", FALSE)
    /\ UNCHANGED <<shell, db, now, history, bookmarks, star_btn, downloads, settings,
                   settings_file>>

OnFinishedFails == \E k \in DOMAIN items : _on_finished_fails(k)

\* The state after construction, however the construction of the
\* DatabaseManager went.
InitFaults ==
    /\ now = 0
    /\ history = <<>>
    /\ bookmarks = <<>>
    /\ star_btn = "off"
    /\ downloads = <<>>
    /\ items = <<>>
    /\ settings = default_settings
    /\ settings_file = [kind |-> "absent"]
    /\ db \in {DatabaseManager_init(outcome) : outcome \in InitOutcomes}
    /\ tabs = startup_tabs(settings)
    /\ closed_tabs_stack = <<>>
    /\ window = "open"
    /\ other_settings = [open |-> FALSE]
    /\ lastOp = NoOp

\* ---------------------------------------------------------------- specs
NextHistory == Tick \/ OnLoadFinished \/ _clear_history
NextBookmarks == Tick \/ AddBookmark \/ RemoveBookmark \/ ToggleBookmark \/ DeleteBookmarkAction
NextDownloads ==
    Tick \/ HandleDownload \/ OnProgress \/ CancelClicked \/ EngineEnds \/ OnFinished

\* Every kind of store operation interleaved within one tick of the clock:
\* page loads of every url, with and without success, of pages without a
\* title, and the operations on the other tables and on the settings on one
\* representative input each.
StoreLoadFinished ==
    \E url \in ViewUrls, ok \in BOOLEAN : _on_load_finished(url, "", ok)
StoreToggleBookmark == toggle_bookmark("http://a", "t1")
StoreDeleteBookmark == delete_bookmark_action("http://a")
StoreHandleDownload == handle_download("/dl/file", 0)
StoreProgress == \E k \in DOMAIN items : _on_progress(k, 1, 2)
StoreEngineEnds == \E k \in DOMAIN items : engine_ends(k, "completed")
StoreFinished == \E k \in DOMAIN items : _on_finished(k, TRUE)
StoreSettingsSet == settings_set("homepage", Str("https://example.com"), "ok")

NextStore ==
    \/ StoreLoadFinished
    \/ _clear_history
    \/ StoreToggleBookmark
    \/ StoreDeleteBookmark
    \/ StoreHandleDownload
    \/ StoreProgress
    \/ StoreEngineEnds
    \/ StoreFinished
    \/ StoreSettingsSet

SpecStore == Init /\ [][NextStore]_vars

SpecHistory == Init /\ [][NextHistory]_vars
SpecBookmarks == Init /\ [][NextBookmarks]_vars
SpecDownloads == Init /\ [][NextDownloads]_vars

\* The downloads of one run, within one tick of the clock, over the table
\* that an earlier run has left.
NextDownloadsRestart ==
    HandleDownload \/ OnProgress \/ CancelClicked \/ EngineEnds \/ OnFinished
SpecDownloadsRestart == InitRestart /\ [][NextDownloadsRestart]_vars

\* The downloads of one run over the table that an earlier run has left, the
\* INSERT of a new record and the UPDATE of a progress or finished event
\* succeeding or raising.
NextDownloadFaults ==
    \/ HandleDownload
    \/ handle_download_fails
    \/ OnProgress
    \/ OnProgressFails
    \/ CancelClicked
    \/ EngineEnds
    \/ OnFinished
    \/ OnFinishedFails
SpecDownloadFaults == InitRestart /\ [][NextDownloadFaults]_vars

\* The history table and the history page.
NextHistoryPage == NextHistory \/ show_history
SpecHistoryPage == Init /\ [][NextHistoryPage]_vars

\* The store operations on one representative input each, and the same
\* handlers with a statement that raises.
FaultsLoadFinished == _on_load_finished("http://a", "t1", TRUE)
FaultsUpdateStarState == _update_star_state("http://a")
NextFaults ==
    \/ FaultsLoadFinished
    \/ _clear_history
    \/ StoreToggleBookmark
    \/ StoreDeleteBookmark
    \/ FaultsUpdateStarState
    \/ show_history
    \/ ShowPage
    \/ StoreHandleDownload
    \/ StoreProgress
    \/ StoreEngineEnds
    \/ StoreFinished
    \/ toggle_bookmark_fails
    \/ _update_star_state_fails
    \/ ShowPageFails
    \/ _on_load_finished_fails
    \/ _clear_history_fails
    \/ delete_bookmark_action_fails
    \/ handle_download_fails
    \/ OnProgressFails
    \/ OnFinishedFails
SpecFaults == InitFaults /\ [][NextFaults]_vars

\* The operations of every kind on one or two representative inputs each.
FrameLoadFinished == \E url \in URLs : _on_load_finished(url, "", TRUE)
FrameAddBookmark == AddBookmark /\ lastOp'.url = "http://a" /\ lastOp'.title = "t2"
FrameRemoveBookmark == RemoveBookmark /\ lastOp'.url = "http://a"
FrameSaveSettings ==
    \E outcomes \in SaveSettingsOutcomes :
        /\ outcomes[1] = outcomes[6]
        /\ save_settings_action([homepage |-> "https://example.com",
                                 show_bookmarks_bar |-> "false",
                                 enable_javascript |-> "True"], outcomes)
NextFrame ==
    \/ FrameLoadFinished
    \/ _clear_history
    \/ FrameAddBookmark
    \/ FrameRemoveBookmark
    \/ StoreToggleBookmark
    \/ StoreDeleteBookmark
    \/ StoreHandleDownload
    \/ StoreProgress
    \/ StoreEngineEnds
    \/ StoreFinished
    \/ StoreSettingsSet
    \/ FrameSaveSettings
SpecFrame == Init /\ [][NextFrame]_vars

\* Runs of the program one after the other over the same database file: page
\* loads, bookmarks and downloads while the window is open, the window
\* closed, the program started again, a second window opened.
RestartLoadFinished == window = "open" /\ FaultsLoadFinished
RestartToggleBookmark == window = "open" /\ StoreToggleBookmark
RestartHandleDownload == window = "open" /\ StoreHandleDownload
RestartClose == closeEvent("ok")
NextRestart ==
    \/ RestartLoadFinished
    \/ RestartToggleBookmark
    \/ RestartHandleDownload
    \/ RestartClose
    \/ StartupAny
    \/ NewWindow
SpecRestart == Init /\ [][NextRestart]_vars

\* Sessions one after the other: tabs opened, the first tab navigated, tabs
\* closed, the window closed, the program started again.
SessionUrlChanged == \E url \in TabUrls : url_changed(1, url)
NextSession == new_tab \/ SessionUrlChanged \/ CloseTab \/ CloseEvent \/ StartupAny
SpecSession == InitSession /\ [][NextSession]_vars

\* The tabs of a window: opened, navigated, closed and reopened, the program
\* started again after the window closed on its last tab.
NextTabs ==
    \/ new_tab
    \/ show_settings
    \/ SessionUrlChanged
    \/ CloseTab
    \/ reopen_closed_tab
    \/ StartupAny
SpecTabs == InitSession /\ [][NextTabs]_vars

\* Page loads that succeed and fail on every kind of url, the internal pages
\* opened in tabs, tabs closed while another is left.
PagesCloseTab ==
    \E index \in 0..(Len(tabs) - 1) : Len(tabs) > 1 /\ close_tab(index, "ok")
NextPages ==
    \/ OnLoadFinished
    \/ _clear_history
    \/ show_history
    \/ ShowPage
    \/ show_settings
    \/ PagesCloseTab
SpecPages == Init /\ [][NextPages]_vars

\* Two windows of one process and the settings set through each of them.
NextWindows == NewWindow \/ SettingsSet \/ SettingsSetOther
SpecWindows == Init /\ [][NextWindows]_vars

NextSettings == SettingsSet \/ SaveSettingsAction \/ SettingsManager_init
SpecSettings == InitSettings /\ [][NextSettings]_vars

\* ================================================================ claims
\* The row of downloads that the model of item k points at.
RowOf(k) == {i \in DOMAIN downloads : downloads[i].id = items[k].download_id}

\* C1: starting without a row for url, add_to_history(url, t1) followed by
\* add_to_history(url, t2) leaves exactly one history row for url, with
\* visit_count = 2 and title = t2.
C1_TwoVisitsOneRow ==
    (lastOp.op = "add_to_history" /\ lastOp.n = 2) =>
        /\ Cardinality(RowsFor(history, lastOp.url)) = 1
        /\ \A i \in RowsFor(history, lastOp.url) :
              /\ history[i].visit_count = 2
              /\ history[i].title = lastOp.title

\* C1 witness: the second of two visits of a url has just run, with a title
\* other than the first one, while the other url has a row too.
C1_Witness ==
    /\ lastOp.op = "add_to_history"
    /\ lastOp.n = 2
    /\ lastOp.title = "t2"
    /\ lastOp.prev = "t1"
    /\ Len(history) = 2

\* C2: in every reachable state, after any sequence of page loads, clearings of
\* the history, bookmark, download and settings operations, the history table
\* holds at most one row per url.
C2_OneHistoryRowPerUrl ==
    \A u \in ViewUrls : Cardinality(RowsFor(history, u)) <= 1

\* C2 witness: a url visited more than once, after a clearing (its row is not
\* the first the table ever held), with a bookmark, a download and a changed
\* setting in the store.
C2_Witness ==
    /\ \E i \in DOMAIN history : history[i].visit_count >= 2
    /\ Len(history) = 2
    /\ bookmarks # <<>>
    /\ downloads # <<>>
    /\ settings # default_settings

\* A step that is a successful load of the page u.
VisitStep(u) == \E vtitle \in ViewTitles : _on_load_finished(u, vtitle, TRUE)

\* A step that clears the history.
ClearStep == lastOp'.op = "clear_history" /\ history' = <<>>

\* C3: from the visit that creates a history row until the next clearing of the
\* history, its visit_count is at least 1, never decreases, goes up by exactly
\* 1 on each further visit of the same url, and no other operation changes it.
C3_VisitCountSteps ==
    [][/\ \A j \in DOMAIN history' : history'[j].visit_count >= 1
       /\ ~ClearStep =>
            \A i \in DOMAIN history :
                /\ RowsFor(history', history[i].url) # {}
                /\ \A j \in RowsFor(history', history[i].url) :
                      history'[j].visit_count =
                          IF VisitStep(history[i].url)
                          THEN history[i].visit_count + 1
                          ELSE history[i].visit_count]_vars

\* C3 witness: a row visited three times, and an operation on another table
\* ran last.
C3_Witness ==
    /\ \E i \in DOMAIN history : history[i].visit_count = 3
    /\ lastOp.op = "on_finished"

\* C4: after add_bookmark(u, t), is_bookmarked(u) is true; after a following
\* remove_bookmark(u), is_bookmarked(u) is false.
C4_AddThenRemove ==
    /\ lastOp.op = "add_bookmark" => is_bookmarked(bookmarks, lastOp.url)
    /\ lastOp.op = "remove_bookmark" => ~is_bookmarked(bookmarks, lastOp.url)

\* C4 witness: remove_bookmark(u) has just run right after add_bookmark(u, t),
\* in a store that holds another bookmark.
C4_Witness ==
    /\ lastOp.op = "remove_bookmark"
    /\ lastOp.after_add
    /\ lastOp.was
    /\ Len(bookmarks) = 1

\* The rows of table t whose url is not u, in order.
Others(t, u) == SelectSeq(t, LAMBDA r : r.url # u)

\* C5: the bookmarks table holds at most one row per url: add_bookmark(u, t) on
\* a bookmarked u replaces its row (the title becomes t) instead of adding a
\* second one, and remove_bookmark(u) removes only the row of u.
C5_OneBookmarkPerUrl ==
    [][/\ \A u \in URLs : Cardinality(RowsFor(bookmarks', u)) <= 1
       /\ (lastOp'.op = "add_bookmark" /\ now' = now) =>
            /\ \A i \in RowsFor(bookmarks', lastOp'.url) :
                  bookmarks'[i].title = lastOp'.title
            /\ RowsFor(bookmarks', lastOp'.url) # {}
            /\ Others(bookmarks', lastOp'.url) = Others(bookmarks, lastOp'.url)
       /\ (lastOp'.op = "remove_bookmark" /\ now' = now) =>
            /\ RowsFor(bookmarks', lastOp'.url) = {}
            /\ Others(bookmarks', lastOp'.url) = Others(bookmarks, lastOp'.url)]_vars

\* C5 witness: add_bookmark has just replaced the row of a bookmarked url,
\* changing its title, next to the bookmark of the other url.
C5_Witness ==
    /\ lastOp.op = "add_bookmark"
    /\ lastOp.was
    /\ lastOp.old # lastOp.title
    /\ lastOp.n = 2
    /\ Len(bookmarks) = 2

\* C6: for a download record made by _setup_db_record, after any number of
\* progress updates, _on_finished sets its status to completed when the file
\* exists (the finish is a success) and to failed when it does not, and sets
\* end_time to a non-null value.
C6_FinishSetsStatus ==
    lastOp.op = "on_finished" =>
        /\ RowOf(lastOp.k) # {}
        /\ \A i \in RowOf(lastOp.k) :
              /\ downloads[i].status = IF lastOp.exists THEN "completed" ELSE "failed"
              /\ downloads[i].end_time # NULL

\* C6 witness: a download finished with success after progress updates.
C6_Witness ==
    /\ lastOp.op = "on_finished"
    /\ lastOp.exists
    /\ \E i \in RowOf(lastOp.k) : downloads[i].downloaded = 2 /\ downloads[i].size = 2

\* C7: the status of a download record never returns from a terminal status to
\* downloading, under any sequence of progress and finished events, progress
\* events after the finished event included.
C7_NoReturnToDownloading ==
    [][\A i \in DOMAIN downloads :
          downloads[i].status \in Terminal => downloads'[i].status # "downloading"]_vars

\* C7 witness: a progress event has arrived after the finished event.
C7_Witness ==
    /\ lastOp.op = "on_progress"
    /\ items[lastOp.k].signalled
    /\ \E i \in RowOf(lastOp.k) :
          downloads[i].status \in Terminal /\ downloads[i].downloaded = 1

\* C8: for every download record whose size is known (positive), downloaded is
\* at most size, whatever pairs the engine reports.
C8_DownloadedAtMostSize ==
    \A i \in DOMAIN downloads :
        downloads[i].size > 0 => downloads[i].downloaded <= downloads[i].size

\* C9: when a download in progress is canceled, the store records the terminal
\* status canceled.
C9_CancelRecorded ==
    \A k \in DOMAIN items :
        (items[k].state = "cancelled" /\ items[k].signalled) =>
            \A i \in RowOf(k) : downloads[i].status = "canceled"

\* C10 as stated: the record of a download that has just begun has status
\* downloading, size 0 and downloaded 0, under the id the model holds.
C10_BeginDownloadSizeZero ==
    lastOp.op = "begin_download" =>
        /\ RowOf(lastOp.k) # {}
        /\ \A i \in RowOf(lastOp.k) :
              /\ downloads[i].status = "downloading"
              /\ downloads[i].size = 0
              /\ downloads[i].downloaded = 0

\* C10 amended: a download whose save dialog is confirmed adds exactly one new
\* record, with status downloading, size = the item's totalBytes() and
\* downloaded = 0, and the model holds that record's id, an id no other record
\* has; a dismissed dialog adds none.
C10_BeginDownload ==
    [][\A tb \in StartTotals :
          /\ \A filename \in SavePaths \ {""} :
                handle_download(filename, tb) =>
                    /\ Len(downloads') = Len(downloads) + 1
                    /\ SubSeq(downloads', 1, Len(downloads)) = downloads
                    /\ LET r == downloads'[Len(downloads')]
                       IN  /\ r.status = "downloading"
                           /\ r.size = tb
                           /\ r.downloaded = 0
                           /\ r.filepath = filename
                           /\ items'[Len(items')].download_id = r.id
                           /\ \A i \in DOMAIN downloads : downloads[i].id # r.id
          /\ handle_download("", tb) => downloads' = downloads]_vars

\* C10 witness: a download has just begun whose total the engine knew.
C10_Witness ==
    /\ lastOp.op = "begin_download"
    /\ lastOp.tb = 2
    /\ \E i \in RowOf(lastOp.k) : downloads[i].size = 2 /\ downloads[i].downloaded = 0

\* C11: a progress update of item k overwrites only the downloaded and size
\* fields of the record with the id of k; it leaves that record's other
\* fields, status and end_time among them, and every other record unchanged.
C11_ProgressFrame ==
    [][\A k \in DOMAIN items, received \in Received, total \in Totals :
          _on_progress(k, received, total) =>
              /\ Len(downloads') = Len(downloads)
              /\ \A i \in DOMAIN downloads :
                    IF downloads[i].id = items[k].download_id
                    THEN /\ downloads'[i].downloaded = received
                         /\ downloads'[i].size = total
                         /\ downloads'[i].status = downloads[i].status
                         /\ downloads'[i].end_time = downloads[i].end_time
                         /\ downloads'[i].start_time = downloads[i].start_time
                         /\ downloads'[i].id = downloads[i].id
                         /\ downloads'[i].filepath = downloads[i].filepath
                    ELSE downloads'[i] = downloads[i]]_vars

\* C11 witness: a progress update has just run on a finished download, next to
\* the record of another download, which differs from it in both fields.
C11_Witness ==
    /\ lastOp.op = "on_progress"
    /\ Len(downloads) = 2
    /\ downloads[1] = PriorDownload
    /\ downloads[2].downloaded = 2
    /\ downloads[2].size = 1
    /\ downloads[2].status = "completed"
    /\ downloads[2].end_time # NULL

\* ------------------------------------------------------ settings claims
\* The keys get is asked for: the known keys, a key outside the default set
\* that a file may hold, and a key that is in no file and no default.
GetKeys == DOMAIN default_settings \cup {UnknownKey, "missing"}

\* The file is a JSON object.
IsObject(file) == file.kind = "json" /\ file.content.json = "object"

\* C12: after set(k, v) of a known key whose write succeeded, a fresh load of
\* the settings file (a new SettingsManager over the same file) makes get(k)
\* return v.
C12_SetThenFreshLoad ==
    (lastOp.op = "settings_set" /\ lastOp.outcome = "ok"
        /\ lastOp.key \in DOMAIN default_settings) =>
            get(load_settings(settings_file).settings, lastOp.key) = lastOp.value

\* C12 witness: a list of tabs has been set and written over a file that held
\* a different document.
C12_Witness ==
    /\ lastOp.op = "settings_set"
    /\ lastOp.outcome = "ok"
    /\ lastOp.key = "last_session_tabs"
    /\ lastOp.value = List(<<Str("http://a")>>)
    /\ lastOp.before.kind = "json"
    /\ get(load_settings(settings_file).settings, "last_session_tabs")
           = List(<<Str("http://a")>>)

\* C13: a load never raises to its caller; when the file exists and parses,
\* every key of the file has the file's value and every default key absent
\* from the file has its default value; when the file is absent or does not
\* parse as a JSON object, the mapping is the defaults.
C13_LoadPolicy ==
    lastOp.op = "load_settings" =>
        /\ lastOp.raised = FALSE
        /\ IF IsObject(lastOp.file)
           THEN /\ \A k \in DOMAIN lastOp.file.content.object :
                      settings[k] = from_json(lastOp.file.content.object[k])
                /\ \A k \in DOMAIN default_settings \ DOMAIN lastOp.file.content.object :
                      settings[k] = default_settings[k]
           ELSE settings = default_settings

\* C13 witness: a file with one known key has been loaded; that key has the
\* file's value and another key its default.
C13_Witness ==
    /\ lastOp.op = "load_settings"
    /\ IsObject(lastOp.file)
    /\ DOMAIN lastOp.file.content.object = {"homepage"}
    /\ settings["homepage"] = Str("https://start.example")
    /\ settings["theme_color"] = default_settings["theme_color"]

\* C14 (as claimed): after the load of a file that holds a key outside the
\* default key set, nothing was raised, every known key of the file resolves
\* to the file's value, and get on the unknown key yields None.
C14_UnknownKeyIgnored ==
    (lastOp.op = "load_settings" /\ IsObject(lastOp.file)
        /\ UnknownKey \in DOMAIN lastOp.file.content.object) =>
            /\ lastOp.raised = FALSE
            /\ \A k \in DOMAIN lastOp.file.content.object \cap DOMAIN default_settings :
                  get(settings, k) = from_json(lastOp.file.content.object[k])
            /\ get(settings, UnknownKey) = None

\* C15 (as claimed): get returns the stored value of a key of the mapping,
\* else the default, and returns None only for a key that is in neither.
C15_NoneOnlyWhenInNeither ==
    \A key \in GetKeys :
        /\ key \in DOMAIN settings => get(settings, key) = settings[key]
        /\ (key \notin DOMAIN settings /\ key \in DOMAIN default_settings) =>
              get(settings, key) = default_settings[key]
        /\ get(settings, key) = None =>
              (key \notin DOMAIN settings /\ key \notin DOMAIN default_settings)

\* C15 (amended): after any sequence of loads and sets every known key is in
\* the mapping; get returns the stored value of a key of the mapping (the
\* value of the last set, after a set), else the default, and returns None
\* only for a key that is in neither or whose stored value is None.
C15_Get ==
    /\ DOMAIN default_settings \subseteq DOMAIN settings
    /\ lastOp.op = "settings_set" => get(settings, lastOp.key) = lastOp.value
    /\ \A key \in GetKeys :
          /\ key \in DOMAIN settings => get(settings, key) = settings[key]
          /\ (key \notin DOMAIN settings /\ key \in DOMAIN default_settings) =>
                get(settings, key) = default_settings[key]
          /\ get(settings, key) = None =>
                \/ key \notin DOMAIN settings /\ key \notin DOMAIN default_settings
                \/ key \in DOMAIN settings /\ settings[key] = None

\* C15 witness: after a load and a set, get returns None for a key that is in
\* neither mapping and for a known key that the file holds as null, and the
\* stored value for an unknown key of the file.
C15_Witness ==
    /\ lastOp.op = "settings_set"
    /\ lastOp.key = "show_bookmarks_bar"
    /\ get(settings, "missing") = None
    /\ "homepage" \in DOMAIN settings
    /\ get(settings, "homepage") = None
    /\ get(settings, "theme_color") = Str("#2D1B69")

\* C16: after a set(key, value) whose rewrite of the file failed, nothing was
\* raised and get(key) returns value; a set that follows and whose write
\* succeeds leaves a file from which a load gives key that value too.
C16_FailedWriteKeepsValue ==
    [][(lastOp.op = "settings_set" /\ lastOp.outcome # "ok") =>
          /\ lastOp.raised = FALSE
          /\ get(settings, lastOp.key) = lastOp.value
          /\ \A key \in SetKeys : \A value \in SetValues(key) :
                settings_set(key, value, "ok") =>
                    /\ IsObject(settings_file')
                    /\ get(load_settings(settings_file').settings, lastOp.key)
                         = IF key = lastOp.key THEN value ELSE lastOp.value]_vars

\* C16 witness: a successful set of another key has written a homepage to the
\* file that only a set with a failed write had put in memory.
C16_Witness ==
    /\ lastOp.op = "settings_set"
    /\ lastOp.outcome = "ok"
    /\ lastOp.key = "show_bookmarks_bar"
    /\ lastOp.before.kind = "corrupt"
    /\ get(load_settings(settings_file).settings, "homepage")
           = Str("https://example.com")

\* ------------------------------------------------ failure and listing claims
\* C17 (as claimed): a storage operation that fails is caught in the handler
\* that called it and acts as a no-op: the exception does not leave the
\* handler and the three tables are as before.
C17_FailuresCaught ==
    [][lastOp'.op = "storage_failure" =>
          /\ lastOp'.raised = FALSE
          /\ history' = history
          /\ bookmarks' = bookmarks
          /\ downloads' = downloads]_vars

\* C18 (as claimed): a DatabaseManager whose initialisation at the per-user
\* path failed was constructed without raising, points at the database in the
\* temporary directory, and the tables exist there, so that no page load
\* fails to be recorded for lack of them.
C18_FallbackUsable ==
    db.db_path # DataDb =>
        /\ db.raised = FALSE
        /\ db.db_path = TempDb
        /\ db.tables
        /\ ~(lastOp.op = "storage_failure" /\ lastOp.handler = "_on_load_finished")

\* C19: after _clear_history the history table has no row, whatever rows it
\* held before.
C19_ClearHistoryEmpties ==
    lastOp.op = "clear_history" => Len(history) = 0

\* C19 witness: a table of two rows has been cleared.
C19_Witness ==
    /\ lastOp.op = "clear_history"
    /\ lastOp.n = 2
    /\ history = <<>>

\* The limits a caller of a listing might choose.
CallerLimits == {1, HistoryLimit}

\* rows is ordered by visit_time, non-increasing.
NonIncreasing(rows) ==
    \A i, j \in DOMAIN rows : i < j => rows[i].visit_time >= rows[j].visit_time

C21_HistoryRowsKept ==
    [][\/ _clear_history
       \/ \A i \in DOMAIN history : RowsFor(history', history[i].url) # {}]_vars

\* C21 witness: the save-settings action has run on a history of two rows.
C21_Witness ==
    /\ lastOp.op = "save_settings_action"
    /\ Len(history) = 2
    /\ settings["homepage"] = Str("https://example.com")

\* C22: the schema creation of a startup, and of a second window, over a
\* database file that holds data leaves every history, bookmark and download
\* row as it is.
C22_SchemaCreationKeepsRows ==
    [][\A outcome \in InitOutcomes :
          (Startup(outcome) \/ new_window(outcome)) =>
              /\ history' = history
              /\ bookmarks' = bookmarks
              /\ downloads' = downloads]_vars

\* C22 witness: the program has started on a database with a row in each
\* table.
C22_Witness ==
    /\ lastOp.op = "startup"
    /\ lastOp.outcome = "ok"
    /\ Len(history) = 1
    /\ Len(bookmarks) = 1
    /\ Len(downloads) = 1

\* C23 (as claimed): with two windows, after a value is set for a key through
\* one window and a value for another key through the other window, both
\* writes succeeding, the settings file holds both values.
C23_BothValuesInFile ==
    [][(/\ \/ lastOp.op = "settings_set" /\ lastOp'.op = "settings_set_other"
           \/ lastOp.op = "settings_set_other" /\ lastOp'.op = "settings_set"
        /\ lastOp.outcome = "ok"
        /\ lastOp'.outcome = "ok"
        /\ lastOp.key # lastOp'.key) =>
          /\ IsObject(settings_file')
          /\ get(load_settings(settings_file').settings, lastOp.key) = lastOp.value
          /\ get(load_settings(settings_file').settings, lastOp'.key)
               = lastOp'.value]_vars

\* ---------------------------------------------------------- session claims
\* The step is a startup that opens a window, and the window of the run
\* before was closed by op.
StartsAfter(op) ==
    /\ lastOp.op = op
    /\ \E outcome \in InitOutcomes : Startup(outcome)
    /\ window' = "open"

\* C24 (as claimed): closing a window with tabs u1..un stores [u1..un] as
\* last_session_tabs and the next startup with restore_last_session true opens
\* exactly those tabs in that order; after the window closed on its last tab
\* the stored list is empty and the next startup opens one homepage tab.
C24_SessionStoredAndRestored ==
    [][/\ lastOp'.op = "closeEvent" =>
             get(settings', "last_session_tabs") = session_tabs(lastOp'.tabs)
       /\ (lastOp'.op = "close_tab" /\ window' = "closed") =>
             get(settings', "last_session_tabs") = List(<<>>)
       /\ (StartsAfter("closeEvent")
              /\ truthy(get(settings', "restore_last_session"))) =>
             tabs' = lastOp.tabs
       /\ (StartsAfter("close_tab")
              /\ truthy(get(settings', "restore_last_session"))) =>
             tabs' = <<view_url(get(settings', "homepage"))>>]_vars

\* C24 (amended): closeEvent sets last_session_tabs in memory to the urls of
\* the open tabs in tab order (to the empty list when the window closes on its
\* last tab); when its write of the settings file succeeds, the next startup
\* with restore_last_session true opens one tab per stored url in that order,
\* a tab stored with an empty url opening the homepage, and one homepage tab
\* when the stored list is empty.
C24_SessionRestoredWhenWritten ==
    [][/\ lastOp'.op = "closeEvent" =>
             get(settings', "last_session_tabs") = session_tabs(lastOp'.tabs)
       /\ (lastOp'.op = "close_tab" /\ window' = "closed") =>
             get(settings', "last_session_tabs") = List(<<>>)
       /\ (StartsAfter("closeEvent")
              /\ lastOp.outcome = "ok"
              /\ truthy(get(settings', "restore_last_session"))) =>
             tabs' = [i \in DOMAIN lastOp.tabs |->
                         IF lastOp.tabs[i] = ""
                         THEN view_url(get(settings', "homepage"))
                         ELSE lastOp.tabs[i]]
       /\ (StartsAfter("close_tab")
              /\ lastOp.outcome = "ok"
              /\ truthy(get(settings', "restore_last_session"))) =>
             tabs' = <<view_url(get(settings', "homepage"))>>]_vars

\* C24 witness: a startup has restored two different tabs in their order.
C24_Witness ==
    /\ lastOp.op = "startup"
    /\ window = "open"
    /\ tabs = <<"http://a", "https://www.google.com">>
    /\ get(settings, "last_session_tabs")
           = List(<<Str("http://a"), Str("https://www.google.com")>>)

\* C25: a window that is open has at least one tab.
C25_OpenWindowHasTab == window = "open" => Len(tabs) >= 1

\* C25 witness: close_tab has closed one of two tabs and the window is open
\* with the other.
C25_Witness ==
    /\ lastOp.op = "close_tab"
    /\ Len(lastOp.before) = 2
    /\ window = "open"
    /\ Len(tabs) = 1

\* C27 (as claimed): close_tab on a valid index pushes the url of that tab on
\* closed_tabs_stack; reopen_closed_tab pops the url pushed last and opens it
\* in a new tab, and changes nothing when the stack is empty.
C27_ReopensLastClosed ==
    [][/\ lastOp'.op = "close_tab" =>
             closed_tabs_stack' =
                 IF lastOp'.index >= 0 /\ lastOp'.index < Len(tabs)
                 THEN Append(closed_tabs_stack, tabs[lastOp'.index + 1])
                 ELSE closed_tabs_stack
       /\ lastOp'.op = "reopen_closed_tab" =>
             IF closed_tabs_stack = <<>>
             THEN tabs' = tabs /\ closed_tabs_stack' = <<>>
             ELSE /\ closed_tabs_stack' \o <<closed_tabs_stack[Len(closed_tabs_stack)]>>
                       = closed_tabs_stack
                  /\ tabs' = Append(tabs, closed_tabs_stack[Len(closed_tabs_stack)])]_vars

\* C27 (amended): close_tab on a valid index pushes the url of that tab on
\* closed_tabs_stack; reopen_closed_tab pops the url pushed last and opens a
\* new tab with it, the tab loading the homepage when that url is empty, and
\* changes nothing when the stack is empty.
C27_ReopensLastClosedOrHomepage ==
    [][/\ lastOp'.op = "close_tab" =>
             closed_tabs_stack' =
                 IF lastOp'.index >= 0 /\ lastOp'.index < Len(tabs)
                 THEN Append(closed_tabs_stack, tabs[lastOp'.index + 1])
                 ELSE closed_tabs_stack
       /\ lastOp'.op = "reopen_closed_tab" =>
             IF closed_tabs_stack = <<>>
             THEN tabs' = tabs /\ closed_tabs_stack' = <<>>
             ELSE LET url == closed_tabs_stack[Len(closed_tabs_stack)]
                  IN  /\ closed_tabs_stack' \o <<url>> = closed_tabs_stack
                      /\ tabs' = Append(tabs, IF url = ""
                                              THEN view_url(get(settings, "homepage"))
                                              ELSE url)]_vars

\* C27 witness: of two different urls on the stack, the one pushed last has
\* been reopened as the last tab and the other is still on the stack.
C27_Witness ==
    /\ lastOp.op = "reopen_closed_tab"
    /\ Len(lastOp.stack) = 2
    /\ lastOp.stack[1] # lastOp.stack[2]
    /\ lastOp.stack[2] # ""
    /\ tabs = Append(lastOp.before, lastOp.stack[2])
    /\ closed_tabs_stack = <<lastOp.stack[1]>>

\* The urls of the history rows are not empty and are not internal urls.
HistoryUrlsOrdinary ==
    \A i \in DOMAIN history :
        /\ history[i].url # ""
        /\ ~startswith(history[i].url, "data:")
        /\ ~startswith(history[i].url, "chrome://")
        /\ ~startswith(history[i].url, "eirus://")

\* C26: the history table never holds an empty url or a url that starts with
\* data:, chrome:// or eirus://; a url gets a row only in a step that is a
\* page load of that url finished with ok = true; opening the history,
\* bookmarks, downloads or settings page, and a load that failed, leave the
\* table as it is.
C26_HistoryOnlyFromLoads ==
    /\ []HistoryUrlsOrdinary
    /\ [][/\ \A url \in ViewUrls :
                (RowsFor(history, url) = {} /\ RowsFor(history', url) # {}) =>
                    \E vtitle \in ViewTitles : _on_load_finished(url, vtitle, TRUE)
          /\ (\/ show_history
              \/ ShowPage
              \/ show_settings
              \/ \E url \in ViewUrls, vtitle \in ViewTitles :
                    _on_load_finished(url, vtitle, FALSE)) =>
                history' = history]_vars

\* C26 witness: with a row in history, the load of an internal page has
\* finished after the page was opened in a second tab, and the row is alone.
C26_Witness ==
    /\ lastOp.op = "load_skipped"
    /\ lastOp.url = PageUrl
    /\ tabs = <<"https://www.google.com", PageUrl>>
    /\ Len(history) = 1

\* C28: for a download whose record could not be inserted (download_id is
\* None), every progress and finished event, its UPDATE running or raising,
\* leaves every row of downloads as it is, and no exception leaves the
\* handler.
C28_NoRecordNoUpdate ==
    [][\A k \in DOMAIN items :
          (/\ items[k].download_id = NULL
           /\ \/ \E received \in Received, total \in Totals :
                    _on_progress(k, received, total)
              \/ \E exists \in BOOLEAN : _on_finished(k, exists)
              \/ _on_progress_fails(k)
              \/ _on_finished_fails(k)) =>
              /\ downloads' = downloads
              /\ lastOp'.op = "storage_failure" => ~lastOp'.raised]_vars

\* C28 witness: the finished event of a download without a record has been
\* handled, its UPDATE running, next to the record of an earlier download.
C28_Witness ==
    /\ lastOp.op = "on_finished"
    /\ items[lastOp.k].download_id = NULL
    /\ items[lastOp.k].signalled
    /\ downloads = <<PriorDownload>>
====
